---- MODULE Spec2Model ----
(***************************************************************************)
(* Model of zero-scraper: main (cmd entry point) and scrape.ScrapeArticle. *)
(* The single-file variant of the program (scrapeArticle and main in one   *)
(* package) has the same statements and follows the same model.            *)
(*                                                                         *)
(* Strings are sequences of one-character strings, so that TrimSpace,     *)
(* concatenation and strings.Join are computed character by character.    *)
(*                                                                         *)
(* A fetched HTML document is the preorder list of its nodes, each with    *)
(* its depth.  Only what the two selectors can observe is kept: text       *)
(* nodes, <a> elements (with their text), <p> elements and                 *)
(* <div class="Page-authors"> elements ("pa").  Elements no selector       *)
(* matches are transparent for e.Text and are left out, and so is text     *)
(* outside every <p> and div.Page-authors, which no callback reads.        *)
(***************************************************************************)
EXTENDS Integers, Sequences, FiniteSets

\* ---------------------------------------------------------------- bounds
MaxNodes == 5

\* ------------------------------------------------------------ strings
Space == {" ", "\n", "\t"}

RECURSIVE TrimLeft(_)
TrimLeft(s) ==
  IF s = <<>> THEN <<>>
  ELSE IF Head(s) \in Space THEN TrimLeft(Tail(s)) ELSE s

RECURSIVE TrimRight(_)
TrimRight(s) ==
  IF s = <<>> THEN <<>>
  ELSE IF s[Len(s)] \in Space THEN TrimRight(SubSeq(s, 1, Len(s) - 1)) ELSE s

\* strings.TrimSpace
TrimSpace(s) == TrimRight(TrimLeft(s))

\* the separator literal " and "
Separator == <<" ", "a", "n", "d", " ">>

RECURSIVE Join(_, _)
\* strings.Join
Join(names, sep) ==
  IF names = <<>> THEN <<>>
  ELSE IF Len(names) = 1 THEN names[1]
  ELSE names[1] \o sep \o Join(Tail(names), sep)

\* ------------------------------------------------------------ documents
LeafTexts == { <<" ">>, <<"J">> }
AnchorTexts == { <<" ">>, <<"J">>, <<"S">> }

Node(kind, d, t) == [kind |-> kind, depth |-> d, text |-> t]

\* HTML content model: a paragraph holds text and anchors only (a <div> or
\* <p> start tag closes an open <p>); a div holds anything; text directly
\* under the document is read by no callback and is not represented.
\* Anchors are kept with their text as one node.
AllowedIn(parentKind, kind) ==
  IF parentKind = "p" THEN kind \in {"text", "a"}
  ELSE IF parentKind = "root" THEN kind # "text"
  ELSE TRUE

RECURSIVE ParentKind(_, _, _)
\* kind of the element that a node of depth dd placed after node j falls in
ParentKind(d, j, dd) ==
  IF dd = 0 \/ j = 0 THEN "root"
  ELSE IF d[j].depth = dd - 1 THEN d[j].kind
  ELSE ParentKind(d, j - 1, dd)

\* the nodes that can follow the preorder list d in a parsed document: the
\* new node is a child of the last node (when that is a container) or of
\* one of its ancestors, and the parser never leaves two adjacent text nodes
NextNodes(d) ==
  LET last == IF d = <<>> THEN Node("root", -1, <<>>) ELSE d[Len(d)]
      maxDepth == IF last.kind \in {"root", "p", "pa"} THEN last.depth + 1
                  ELSE last.depth
  IN  { nd \in ({ Node("text", dd, t) : dd \in 0 .. maxDepth, t \in LeafTexts }
               \cup { Node("a", dd, t) : dd \in 0 .. maxDepth, t \in AnchorTexts }
               \cup { Node(k, dd, <<>>) : dd \in 0 .. maxDepth, k \in {"p", "pa"} }) :
          /\ AllowedIn(ParentKind(d, Len(d), nd.depth), nd.kind)
          /\ ~(nd.kind = "text" /\ last.kind = "text" /\ last.depth = nd.depth) }

RECURSIVE SubtreeEnd(_, _, _)
\* index of the last node of the subtree rooted at i (scan from j)
SubtreeEnd(d, i, j) ==
  IF j < Len(d) /\ d[j + 1].depth > d[i].depth THEN SubtreeEnd(d, i, j + 1) ELSE j

RECURSIVE ConcatText(_, _, _)
ConcatText(d, from, to) ==
  IF from > to THEN <<>> ELSE d[from].text \o ConcatText(d, from + 1, to)

\* e.Text: the text of the element and of all its descendants, document order
ElementText(d, i) == ConcatText(d, i, SubtreeEnd(d, i, i))

RECURSIVE FindFrom(_, _, _, _)
FindFrom(d, kind, from, to) ==
  IF from > to THEN <<>>
  ELSE (IF d[from].kind = kind THEN <<from>> ELSE <<>>)
       \o FindFrom(d, kind, from + 1, to)

\* the selection the collector hands to an OnHTML callback: every match of
\* the selector in the whole document, in document order
Matches(d, kind) == FindFrom(d, kind, 1, Len(d))

\* e.ForEach("a", ...): the anchors nested within element i
AnchorsIn(d, i) == FindFrom(d, "a", i + 1, SubtreeEnd(d, i, i))

\* ------------------------------------------------------ ScrapeArticle
\* text := e.Text; if text != "" { author = strings.TrimSpace(text) }
SetAuthor(author0, text) ==
  IF text # <<>> THEN TrimSpace(text) ELSE author0

RECURSIVE CollectNames(_, _, _)
\* the ForEach body over the anchors as: append each non-empty trimmed text
CollectNames(names, d, as) ==
  IF as = <<>> THEN names
  ELSE LET name == TrimSpace(ElementText(d, Head(as)))
       IN  CollectNames(IF name # <<>> THEN Append(names, name) ELSE names,
                        d, Tail(as))

AppendParagraph_no_newline(content, text) == content \o text

\* articleContent += e.Text + "\n"
AppendParagraph(content, text) == content \o text \o <<"\n">>

FinalByline_always_join(author0, names) ==
  IF Len(names) > 0 THEN Join(names, Separator) ELSE author0

FinalByline_no_separator(author0, names) ==
  IF author0 = <<>> /\ Len(names) > 0 THEN Join(names, <<" ">>) ELSE author0

\* if author == "" && len(authors) > 0 { author = strings.Join(authors, " and ") }
FinalByline(author0, names) ==
  IF author0 = <<>> /\ Len(names) > 0 THEN Join(names, Separator) ELSE author0

\* ---------------------------------------------------------------- main
URLs == { "", "http://x" }

URLMissing_never(u) == FALSE

\* if *urlPtr == ""
URLMissing(u) == u = ""

ScrapeFailed_never(e) == FALSE

\* if err != nil
ScrapeFailed(e) == e # "nil"

Line(stream, lit, arg) == [stream |-> stream, lit |-> lit, arg |-> arg]

ContentReport_both(a) ==
  IF a = <<>>
  THEN << Line("stderr", "No article content found.", <<>>) >>
  ELSE << Line("stderr", "No article content found.", <<>>),
          Line("stdout", "Scraped Article Content:", <<>>),
          Line("stdout", "", a) >>

ContentReport_swapped(a) ==
  IF a # <<>>
  THEN << Line("stderr", "No article content found.", <<>>) >>
  ELSE << Line("stdout", "Scraped Article Content:", <<>>),
          Line("stdout", "", a) >>

\* if article == "" { log.Println(...) } else { fmt.Println(...); fmt.Println(article) }
ContentReport(a) ==
  IF a = <<>>
  THEN << Line("stderr", "No article content found.", <<>>) >>
  ELSE << Line("stdout", "Scraped Article Content:", <<>>),
          Line("stdout", "", a) >>

BylineReport_on_content(a, b) ==
  IF a = <<>>
  THEN << Line("stdout", "No author information found.", <<>>) >>
  ELSE << Line("stdout", "Byline:", b) >>

\* if byline == "" { fmt.Println(...) } else { fmt.Println("Byline:", byline) }
BylineReport(a, b) ==
  IF b = <<>>
  THEN << Line("stdout", "No author information found.", <<>>) >>
  ELSE << Line("stdout", "Byline:", b) >>

VARIABLES pc, url, requests, doc, paQueue, pQueue,
          articleContent, author, authors,
          article, byline, err, out, exitCode

vars == << pc, url, requests, doc, paQueue, pQueue,
           articleContent, author, authors,
           article, byline, err, out, exitCode >>

scrapeLocals == << doc, paQueue, pQueue, articleContent, author, authors >>
mainLocals == << article, byline, err >>

Init ==
  /\ pc = "start"
  /\ url = ""
  /\ requests = 0
  /\ doc = <<>>
  /\ paQueue = <<>>
  /\ pQueue = <<>>
  /\ articleContent = <<>>
  /\ author = <<>>
  /\ authors = <<>>
  /\ article = <<>>
  /\ byline = <<>>
  /\ err = "nil"
  /\ out = <<>>
  /\ exitCode = -1

\* flag.String("url", "", ...); flag.Parse()
ParseFlags ==
  /\ pc = "start"
  /\ \E u \in URLs : url' = u
  /\ pc' = "flags"
  /\ UNCHANGED << requests, scrapeLocals, mainLocals, out, exitCode >>

\* log.Fatal("Please provide a URL using the -url flag")
MissingURL ==
  /\ pc = "flags"
  /\ URLMissing(url)
  /\ out' = Append(out, Line("stderr", "Please provide a URL using the -url flag", <<>>))
  /\ exitCode' = 1
  /\ pc' = "exited"
  /\ UNCHANGED << url, requests, scrapeLocals, mainLocals >>

\* main calls ScrapeArticle: the locals are declared, the collector is
\* created and the callbacks are registered
CallScrape ==
  /\ pc = "flags"
  /\ ~URLMissing(url)
  /\ articleContent' = <<>>
  /\ author' = <<>>
  /\ authors' = <<>>
  /\ pc' = "visit"
  /\ UNCHANGED << url, requests, doc, paQueue, pQueue, mainLocals, out, exitCode >>

\* c.Visit(url) returns an error; ScrapeArticle returns "", "", err.
\* A request that was sent and failed also runs the OnError callback.
VisitFails ==
  /\ pc = "visit"
  /\ \E e \in {"invalid_url", "fetch"} :
       /\ err' = e
       /\ requests' = IF e = "fetch" THEN requests + 1 ELSE requests
       /\ out' = IF e = "fetch"
                 THEN Append(out, Line("stderr", "Error:", <<>>))
                 ELSE out
  /\ article' = <<>>
  /\ byline' = <<>>
  /\ pc' = "returned"
  /\ UNCHANGED << url, scrapeLocals, exitCode >>

\* c.Visit(url) sends the request and a response starts to arrive
VisitResponse ==
  /\ pc = "visit"
  /\ requests' = requests + 1
  /\ doc' = <<>>
  /\ pc' = "response"
  /\ UNCHANGED << url, paQueue, pQueue, articleContent, author, authors,
                  mainLocals, out, exitCode >>

\* the next node of the response body's document
ReceiveNode ==
  /\ pc = "response"
  /\ Len(doc) < MaxNodes
  /\ \E nd \in NextNodes(doc) : doc' = Append(doc, nd)
  /\ UNCHANGED << pc, url, requests, paQueue, pQueue, articleContent, author,
                  authors, mainLocals, out, exitCode >>

\* the body is complete: the collector selects the matches of each
\* registered selector in the parsed document
HandleOnHTML ==
  /\ pc = "response"
  /\ paQueue' = Matches(doc, "pa")
  /\ pQueue' = Matches(doc, "p")
  /\ pc' = "callbacks"
  /\ UNCHANGED << url, requests, doc, articleContent, author, authors,
                  mainLocals, out, exitCode >>

\* the div.Page-authors callback, run on the next match
OnPageAuthors ==
  /\ pc = "callbacks"
  /\ paQueue # <<>>
  /\ LET e == Head(paQueue)
     IN  /\ author' = SetAuthor(author, ElementText(doc, e))
         /\ authors' = CollectNames(authors, doc, AnchorsIn(doc, e))
  /\ paQueue' = Tail(paQueue)
  /\ UNCHANGED << pc, url, requests, doc, pQueue, articleContent, mainLocals, out, exitCode >>

\* the p callback, run on the next match; callbacks run in the order they
\* were registered, so every div.Page-authors match has been handled
OnParagraph ==
  /\ pc = "callbacks"
  /\ paQueue = <<>>
  /\ pQueue # <<>>
  /\ articleContent' = AppendParagraph(articleContent, ElementText(doc, Head(pQueue)))
  /\ pQueue' = Tail(pQueue)
  /\ UNCHANGED << pc, url, requests, doc, paQueue, author, authors, mainLocals, out, exitCode >>

\* c.Visit returned nil: compute the byline and return
ScrapeReturns ==
  /\ pc = "callbacks"
  /\ paQueue = <<>>
  /\ pQueue = <<>>
  /\ article' = articleContent
  /\ byline' = FinalByline(author, authors)
  /\ err' = "nil"
  /\ pc' = "returned"
  /\ UNCHANGED << url, requests, scrapeLocals, out, exitCode >>

\* log.Fatalf("Error scraping article: %v", err)
ScrapeError ==
  /\ pc = "returned"
  /\ ScrapeFailed(err)
  /\ out' = Append(out, Line("stderr", "Error scraping article:", <<>>))
  /\ exitCode' = 1
  /\ pc' = "exited"
  /\ UNCHANGED << url, requests, scrapeLocals, mainLocals >>

PrintContent ==
  /\ pc = "returned"
  /\ ~ScrapeFailed(err)
  /\ out' = out \o ContentReport(article)
  /\ pc' = "content_printed"
  /\ UNCHANGED << url, requests, scrapeLocals, mainLocals, exitCode >>

PrintByline ==
  /\ pc = "content_printed"
  /\ out' = out \o BylineReport(article, byline)
  /\ exitCode' = 0
  /\ pc' = "exited"
  /\ UNCHANGED << url, requests, scrapeLocals, mainLocals >>

Next ==
  \/ ParseFlags
  \/ MissingURL
  \/ CallScrape
  \/ VisitFails
  \/ VisitResponse
  \/ ReceiveNode
  \/ HandleOnHTML
  \/ OnPageAuthors
  \/ OnParagraph
  \/ ScrapeReturns
  \/ ScrapeError
  \/ PrintContent
  \/ PrintByline

Spec == Init /\ [][Next]_vars

TypeOK ==
  /\ pc \in {"start", "flags", "visit", "response", "callbacks", "returned",
             "content_printed", "exited"}
  /\ url \in URLs
  /\ exitCode \in {-1, 0, 1}
  /\ requests \in {0, 1}

\* ------------------------------------------------- vocabulary of the claims
\* ScrapeArticle has just returned to main with a nil error
ScrapeSucceeded == pc = "returned" /\ err = "nil"

\* the run has ended after a successful fetch
RunCompleted == pc = "exited" /\ exitCode = 0 /\ err = "nil"

NodesOf(kind) == { i \in 1 .. Len(doc) : doc[i].kind = kind }

IsDescendant(j, i) == i < j /\ \A k \in (i + 1) .. j : doc[k].depth > doc[i].depth

\* text of element i: the text of the nodes at or below i, document order
RECURSIVE TextBelow(_, _)
TextBelow(i, j) ==
  IF j > Len(doc) THEN <<>>
  ELSE (IF j = i \/ IsDescendant(j, i) THEN doc[j].text ELSE <<>>)
       \o TextBelow(i, j + 1)

TextOf(i) == TextBelow(i, i)

Trimmed(s) ==
  IF \A k \in 1 .. Len(s) : s[k] \in Space THEN <<>>
  ELSE LET lo == CHOOSE k \in 1 .. Len(s) :
                   s[k] \notin Space /\ \A m \in 1 .. (k - 1) : s[m] \in Space
           hi == CHOOSE k \in 1 .. Len(s) :
                   s[k] \notin Space /\ \A m \in (k + 1) .. Len(s) : s[m] \in Space
       IN  SubSeq(s, lo, hi)

RECURSIVE ExpectedContent(_)
\* paragraph texts, each followed by a newline, from node i on
ExpectedContent(i) ==
  IF i > Len(doc) THEN <<>>
  ELSE (IF doc[i].kind = "p" THEN TextOf(i) \o <<"\n">> ELSE <<>>)
       \o ExpectedContent(i + 1)

RECURSIVE NamesUnder(_, _)
\* trimmed non-empty texts of the anchors below element i, from node j on
NamesUnder(i, j) ==
  IF j > Len(doc) THEN <<>>
  ELSE (IF doc[j].kind = "a" /\ IsDescendant(j, i) /\ Trimmed(doc[j].text) # <<>>
        THEN << Trimmed(doc[j].text) >> ELSE <<>>)
       \o NamesUnder(i, j + 1)

RECURSIVE ExpectedNames(_)
\* names of every div.Page-authors, divs in document order, from node i on
ExpectedNames(i) ==
  IF i > Len(doc) THEN <<>>
  ELSE (IF doc[i].kind = "pa" THEN NamesUnder(i, i + 1) ELSE <<>>)
       \o ExpectedNames(i + 1)

RECURSIVE Joined(_)
\* names separated by " and "
Joined(names) ==
  IF Len(names) = 0 THEN <<>>
  ELSE IF Len(names) = 1 THEN names[1]
  ELSE Joined(SubSeq(names, 1, Len(names) - 1))
       \o <<" ", "a", "n", "d", " ">> \o names[Len(names)]

Max(S) == CHOOSE x \in S : \A y \in S : y <= x

HasLine(stream, lit) == \E k \in 1 .. Len(out) : out[k].stream = stream /\ out[k].lit = lit

Emitted(lit) == \E k \in 1 .. Len(out) : out[k].lit = lit

ReportLits == { "Scraped Article Content:", "No article content found.",
                "Byline:", "No author information found." }

NoReportLines == \A k \in 1 .. Len(out) : out[k].lit \notin ReportLits /\ out[k].lit # ""

\* ------------------------------------------------------------------ C1
\* C1: after a successful ScrapeArticle on a document with <p> elements, the
\* returned content is the concatenation, in document order, of every
\* paragraph's text followed by one newline, whatever the number of
\* div.Page-authors elements and also for paragraphs nested in such a div.
C1_ContentIsParagraphConcat ==
  (ScrapeSucceeded /\ NodesOf("p") # {}) => article = ExpectedContent(1)

C1_Witness ==
  /\ ScrapeSucceeded
  /\ Cardinality(NodesOf("p")) >= 2
  /\ \E i \in NodesOf("pa") : \E j \in NodesOf("p") :
       IsDescendant(j, i) /\ TextOf(j) # <<>>
  /\ \E j \in NodesOf("p") : doc[j].depth = 0 /\ TextOf(j) # <<>>
                             /\ \E k \in NodesOf("p") : TextOf(k) # TextOf(j)

C3_AnyDivTextIsByline ==
  ScrapeSucceeded =>
    /\ \A i \in NodesOf("pa") :
         Trimmed(TextOf(i)) # <<>> => byline = Trimmed(TextOf(i))
    /\ author # <<>> => byline = author

\* C3 (amended): whenever the last div.Page-authors element in document
\* order has non-empty trimmed text, the returned byline equals that trimmed
\* text verbatim and the collected anchor names are ignored; the joined name
\* list is never returned while the combined byline text is non-empty.
C3_LastDivTextIsByline ==
  ScrapeSucceeded =>
    /\ (NodesOf("pa") # {} /\ Trimmed(TextOf(Max(NodesOf("pa")))) # <<>>)
         => byline = Trimmed(TextOf(Max(NodesOf("pa"))))
    /\ author # <<>> => byline = author

C3_Witness ==
  /\ ScrapeSucceeded
  /\ NodesOf("pa") # {}
  /\ Trimmed(TextOf(Max(NodesOf("pa")))) # <<>>
  /\ Len(authors) >= 1
  /\ byline # Joined(authors)
  /\ byline = <<"J", "S">>

\* ------------------------------------------------------------------ C4
\* C4: when Visit returns an error, ScrapeArticle returns empty content,
\* empty byline and the error; the program reports the fetch error and
\* terminates without printing any content or byline report line.
C4_FetchErrorNoOutput ==
  err # "nil" =>
    /\ pc \in {"returned", "exited"}
    /\ article = <<>> /\ byline = <<>>
    /\ NoReportLines
    /\ pc = "exited" =>
         /\ exitCode = 1
         /\ out[Len(out)] = Line("stderr", "Error scraping article:", <<>>)

C4_Witness ==
  /\ pc = "exited" /\ err = "fetch" /\ requests = 1
  /\ HasLine("stderr", "Error scraping article:")

\* ------------------------------------------------------------------ C5
\* C5: when the url flag is missing or empty the program reports a fatal
\* error and terminates before any network activity: ScrapeArticle is never
\* entered, no request is issued and no extraction output is printed.
C5_NoURLNoNetwork ==
  (pc # "start" /\ url = "") =>
    /\ pc \in {"flags", "exited"}
    /\ requests = 0
    /\ NoReportLines
    /\ pc = "exited" =>
         /\ exitCode = 1
         /\ out = << Line("stderr", "Please provide a URL using the -url flag", <<>>) >>

C5_Witness == pc = "exited" /\ url = "" /\ exitCode = 1 /\ Len(out) = 1

\* ------------------------------------------------------------------ C6
\* C6 (as claimed): for a successfully fetched document with zero <p>
\* elements the content is empty and the program emits the line
\* 'No article content found.' on standard output, without the header.
C6_NoContentOnStdout ==
  (RunCompleted /\ NodesOf("p") = {}) =>
    /\ article = <<>>
    /\ HasLine("stdout", "No article content found.")
    /\ ~Emitted("Scraped Article Content:")

\* C6 (amended): for a successfully fetched document with zero <p> elements
\* the content is empty and the program emits the line
\* 'No article content found.' through the logger, on standard error, and
\* does not print 'Scraped Article Content:'.
C6_NoContentOnStderr ==
  (RunCompleted /\ NodesOf("p") = {}) =>
    /\ article = <<>>
    /\ HasLine("stderr", "No article content found.")
    /\ ~HasLine("stdout", "No article content found.")
    /\ ~Emitted("Scraped Article Content:")

C6_Witness ==
  /\ RunCompleted /\ NodesOf("p") = {} /\ Len(doc) >= 2
  /\ \E i \in 1 .. Len(doc) : doc[i].text \notin { <<>>, <<" ">> }
  /\ out[1] = Line("stderr", "No article content found.", <<>>)

\* ------------------------------------------------------------------ C7
\* C7: for a successfully fetched document without any div.Page-authors the
\* returned byline is empty and the program prints
\* 'No author information found.' and never a 'Byline:' line, whatever the
\* paragraphs and anchors of the document.
C7_NoAuthorsDivNoByline ==
  /\ (ScrapeSucceeded /\ NodesOf("pa") = {}) => byline = <<>>
  /\ (RunCompleted /\ NodesOf("pa") = {}) =>
       /\ byline = <<>>
       /\ out[Len(out)] = Line("stdout", "No author information found.", <<>>)
       /\ ~Emitted("Byline:")

C7_Witness ==
  /\ RunCompleted /\ NodesOf("pa") = {}
  /\ \E i \in NodesOf("a") : doc[i].text = <<"J">>
  /\ \E i \in NodesOf("p") : TextOf(i) # <<>>
  /\ HasLine("stdout", "No author information found.")

\* ------------------------------------------------------------------ C8
\* C8 (as claimed): the combined byline is set to an element's trimmed text
\* only if that trimmed text is non-empty, so once every div.Page-authors
\* match has been processed the combined byline is the trimmed text of the
\* last match whose trimmed text is non-empty (empty when there is none).
C8_LastNonEmptyTrimmedWins ==
  (pc = "callbacks" /\ paQueue = <<>>) =>
    LET S == { i \in NodesOf("pa") : Trimmed(TextOf(i)) # <<>> }
    IN  author = IF S = {} THEN <<>> ELSE Trimmed(TextOf(Max(S)))

\* ------------------------------------------------------------------ C9
\* C9: at return from a successful ScrapeArticle, if the combined byline is
\* empty and names were collected, the byline is all collected names (the
\* trimmed non-empty anchor texts of every div.Page-authors, in the order
\* encountered) joined with " and "; if none was collected it is empty.
C9_EmptyCombinedGivesJoinedNames ==
  (ScrapeSucceeded /\ author = <<>>) =>
    /\ authors = ExpectedNames(1)
    /\ byline = Joined(ExpectedNames(1))

C9_Witness ==
  /\ ScrapeSucceeded /\ author = <<>>
  /\ Len(authors) >= 2 /\ authors[1] # authors[2]
  /\ byline = <<"J", " ", "a", "n", "d", " ", "S">>

\* ----------------------------------------------------------------- C10
\* C10: a run whose fetch succeeds emits exactly one content report (the
\* header and the content, or 'No article content found.') and then exactly
\* one byline report ('Byline: <byline>' or 'No author information found.'),
\* the byline report chosen on the byline alone; no report line is emitted
\* before fetch and extraction have completed.
C10_OneContentThenOneBylineReport ==
  LET contentReport ==
        IF article = <<>>
        THEN << [stream |-> "stderr", lit |-> "No article content found.", arg |-> <<>>] >>
        ELSE << [stream |-> "stdout", lit |-> "Scraped Article Content:", arg |-> <<>>],
                [stream |-> "stdout", lit |-> "", arg |-> article] >>
      bylineReport ==
        IF byline = <<>>
        THEN << [stream |-> "stdout", lit |-> "No author information found.", arg |-> <<>>] >>
        ELSE << [stream |-> "stdout", lit |-> "Byline:", arg |-> byline] >>
  IN  /\ ~NoReportLines =>
           /\ pc \in {"content_printed", "exited"}
           /\ err = "nil" /\ requests = 1
           /\ paQueue = <<>> /\ pQueue = <<>>
      /\ (pc = "content_printed") => out = contentReport
      /\ RunCompleted => out = contentReport \o bylineReport

C10_Witness ==
  /\ RunCompleted
  /\ article # <<>> /\ byline # <<>>
  /\ Len(out) = 3
  /\ out[1].lit = "Scraped Article Content:" /\ out[3].lit = "Byline:"
====
